---- MODULE Spec2Model ----
(***************************************************************************)
(* Model of app.py, the Streamlit script of the AI Piano Arranger.  One    *)
(* behaviour is a sequence of script runs: the flexible basic-pitch        *)
(* import, the audio acquisition (upload or YouTube link), the             *)
(* transcription dispatch, the MIDI -> MusicXML conversion and the         *)
(* Downloads section.  External collaborators (basic_pitch, yt_dlp,        *)
(* pydub, music21, the file system) are nondeterministic over the          *)
(* outcomes they can produce.  Statements outside any try block            *)
(* (lines 58-59, 176-207) are taken not to raise.                          *)
(***************************************************************************)
EXTENDS Naturals, Sequences, FiniteSets, TLC

VARIABLES
    pc,                   \* position in the script
    PREDICT_FN,           \* TRUE when bound to a function (line 13)
    PREDICT_AND_SAVE_FN,  \* TRUE when bound to a function (line 14)
    IMPORT_ERROR,         \* "None" or the class of the stored exception (line 15)
    params,               \* parameter names of predict_and_save (line 120)
    input_type,           \* the radio choice (line 48)
    audio_path,           \* "None", "upload" (UPLOADS/uid.ext), "trimmed" (UPLOADS/uid_trimmed.wav)
    ext,                  \* suffix of audio_path's file name
    midi_out,             \* "None" or "path" (lines 104, 161)
    musicxml_path,        \* "None" or "path" (lines 105, 171)
    files,                \* the request's files: name -> "absent" | "partial" | "complete"
    codec,                \* actual encoding of the audio files' bytes
    called,               \* calls made into the backend, in order
    branch,               \* the dispatch branch taken by the transcription block
    msgs,                 \* st.success / st.error / st.info messages shown
    offered               \* download buttons rendered: kind -> [mime, codec]

vars == <<pc, PREDICT_FN, PREDICT_AND_SAVE_FN, IMPORT_ERROR, params, input_type,
          audio_path, ext, midi_out, musicxml_path, files, codec, called,
          branch, msgs, offered>>

importVars == <<PREDICT_FN, PREDICT_AND_SAVE_FN, IMPORT_ERROR, params>>

\* ---------------------------------------------------------------- domains

\* Outcomes of one import statement.
ImportOutcomes == {"ok", "ImportError", "Exception"}

\* Parameter names the heuristic dispatch looks for (lines 123, 127).
ParamNames == {"save_midi", "save_notes", "save_model_outputs", "model_or_model_path"}

\* Suffixes the uploader lets through: its allow-list (line 53) is wav, mp3,
\* m4a, flac, ogg, matched without regard to case.
UploadSuffixes == {".wav", ".WAV", ".mp3", ".MP3", ".m4a", ".flac", ".ogg"}

\* str.lower() on a suffix (line 55).
Lower(s) ==
    CASE s = ".WAV" -> ".wav"
      [] s = ".MP3" -> ".mp3"
      [] OTHER -> s

\* The encoding of an uploaded file's bytes, as its suffix declares it.
CodecOf(s) ==
    CASE Lower(s) = ".wav" -> "wav"
      [] Lower(s) = ".mp3" -> "mp3"
      [] Lower(s) = ".m4a" -> "m4a"
      [] Lower(s) = ".flac" -> "flac"
      [] Lower(s) = ".ogg" -> "ogg"

FileNames == {"upload", "raw", "trimmed", "midi", "notes", "musicxml"}

FileStates == {"absent", "partial", "complete"}

NoFiles == [f \in FileNames |-> "absent"]

NoCodec == [f \in {"upload", "raw", "trimmed"} |-> "none"]

\* Path.exists()
Exists(fs, f) == fs[f] # "absent"

\* The four positional arguments of every predict_and_save call (lines 125, 129, 133).
PasArgs(ap) == <<ap, "midi_out", "note_events_json", "None">>

\* The two positional arguments of the predict call (line 138).
PredictArgs(ap) == <<ap, "None">>

\* ---------------------------------------------------------------- import

Init ==
    /\ pc = "import"
    /\ PREDICT_FN = FALSE
    /\ PREDICT_AND_SAVE_FN = FALSE
    /\ IMPORT_ERROR = "None"
    /\ params = {}
    /\ input_type = "none"
    /\ audio_path = "None"
    /\ ext = "none"
    /\ midi_out = "None"
    /\ musicxml_path = "None"
    /\ files = NoFiles
    /\ codec = NoCodec
    /\ called = <<>>
    /\ branch = "none"
    /\ msgs = {}
    /\ offered = <<>>

requestVars == <<input_type, audio_path, ext, midi_out, musicxml_path, files,
                 codec, called, branch, msgs, offered>>

\* Lines 16-22, 35-36: from basic_pitch.inference import predict, predict_and_save
ImportBoth ==
    /\ pc = "import"
    /\ \E o \in ImportOutcomes, ps \in SUBSET ParamNames :
         /\ PREDICT_FN' = (o = "ok")
         /\ PREDICT_AND_SAVE_FN' = (o = "ok")
         /\ params' = IF o = "ok" THEN ps ELSE {}
         /\ IMPORT_ERROR' = IF o = "Exception" THEN "Exception" ELSE "None"
         /\ pc' = IF o = "ImportError" THEN "import_pas" ELSE "input"
    /\ UNCHANGED requestVars

\* MUTANT of ImportErrorAfterPas: the handler passes, as the predict one does.
ImportErrorAfterPas_Pass(o, e) == "None"

\* Lines 27-28: IMPORT_ERROR after the second import attempt; e is the
\* ImportError caught at line 21.
ImportErrorAfterPas(o, e) == IF o = "ok" THEN "None" ELSE e

\* Lines 23-28: from basic_pitch.inference import predict_and_save
ImportPredictAndSave ==
    /\ pc = "import_pas"
    /\ \E o \in ImportOutcomes, ps \in SUBSET ParamNames :
         /\ PREDICT_AND_SAVE_FN' = (o = "ok")
         /\ params' = IF o = "ok" THEN ps ELSE {}
         /\ IMPORT_ERROR' = ImportErrorAfterPas(o, "ImportError")
    /\ pc' = "import_predict"
    /\ UNCHANGED <<PREDICT_FN, requestVars>>

\* Lines 29-34: from basic_pitch.inference import predict
ImportPredict ==
    /\ pc = "import_predict"
    /\ \E o \in ImportOutcomes : PREDICT_FN' = (o = "ok")
    /\ pc' = "input"
    /\ UNCHANGED <<PREDICT_AND_SAVE_FN, IMPORT_ERROR, params, requestVars>>

\* ---------------------------------------------------------------- acquisition

\* Lines 52-60: the Upload File branch; up is the uploaded file's suffix,
\* "none" while nothing is uploaded.
UploadFile ==
    /\ pc = "input"
    /\ input_type' = "Upload File"
    /\ \E up \in UploadSuffixes \cup {"none"} :
         IF up = "none"
         THEN UNCHANGED <<audio_path, ext, files, codec>>
         ELSE /\ ext' = Lower(up)
              /\ files' = [files EXCEPT !["upload"] = "complete"]
              /\ codec' = [codec EXCEPT !["upload"] = CodecOf(up)]
              /\ audio_path' = "upload"
    /\ pc' = "gate"
    /\ UNCHANGED <<importVars, midi_out, musicxml_path, called, branch, msgs, offered>>

\* Lines 62-64: the YouTube Link branch with the button not pressed or no url.
YouTubeIdle ==
    /\ pc = "input"
    /\ input_type' = "YouTube Link"
    /\ pc' = "gate"
    /\ UNCHANGED <<importVars, audio_path, ext, midi_out, musicxml_path, files,
                   codec, called, branch, msgs, offered>>

DownloadOutcomes == {"ok", "extract_raises", "extract_raises_partial", "file_missing"}

\* Lines 64-85, 96-98: yt_dlp download and mp3 extraction, with the handler.
YouTubeDownload ==
    /\ pc = "input"
    /\ input_type' = "YouTube Link"
    /\ \E o \in DownloadOutcomes :
         /\ files' = [files EXCEPT !["raw"] =
                        CASE o = "ok" -> "complete"
                          [] o = "extract_raises_partial" -> "partial"
                          [] OTHER -> "absent"]
         /\ codec' = [codec EXCEPT !["raw"] =
                        IF o \in {"ok", "extract_raises_partial"} THEN "mp3" ELSE "none"]
         /\ msgs' = msgs \cup (IF o = "ok" THEN {"downloading", "downloaded"}
                                           ELSE {"downloading", "download_error"})
         /\ pc' = IF o = "ok" THEN "trim" ELSE "gate"
    /\ audio_path' = "None"
    /\ UNCHANGED <<importVars, ext, midi_out, musicxml_path, called, branch, offered>>

TrimOutcomes == {"ok", "decode_raises", "export_raises", "export_raises_partial"}

\* MUTANT of AudioPathAfterTrim: the path is assigned before the export and
\* the handler does not reset it.
AudioPathAfterTrim_Early(o) == IF o = "decode_raises" THEN "None" ELSE "trimmed"

\* Lines 87-91, 96-98: audio_path after decoding, trimming and exporting.
AudioPathAfterTrim(o) == IF o = "ok" THEN "trimmed" ELSE "None"

\* Lines 86-91, 96-98: AudioSegment.from_file, audio[:30000], export as wav.
TrimExport ==
    /\ pc = "trim"
    /\ \E o \in TrimOutcomes :
         /\ files' = [files EXCEPT !["trimmed"] =
                        CASE o = "ok" -> "complete"
                          [] o = "export_raises_partial" -> "partial"
                          [] OTHER -> "absent"]
         /\ codec' = [codec EXCEPT !["trimmed"] =
                        IF o \in {"ok", "export_raises_partial"} THEN "wav" ELSE "none"]
         /\ audio_path' = AudioPathAfterTrim(o)
         /\ ext' = IF AudioPathAfterTrim(o) = "None" THEN ext ELSE ".wav"
         /\ msgs' = IF o = "ok" THEN msgs ELSE msgs \cup {"download_error"}
         /\ pc' = IF o = "ok" THEN "unlink" ELSE "gate"
    /\ UNCHANGED <<importVars, input_type, midi_out, musicxml_path, called, branch, offered>>

\* Lines 92-95: audio_raw.unlink(), any exception swallowed.
UnlinkRaw ==
    /\ pc = "unlink"
    /\ \E raises \in BOOLEAN :
         /\ files' = IF raises THEN files ELSE [files EXCEPT !["raw"] = "absent"]
         /\ codec' = IF raises THEN codec ELSE [codec EXCEPT !["raw"] = "none"]
    /\ pc' = "gate"
    /\ UNCHANGED <<importVars, input_type, audio_path, ext, midi_out, musicxml_path,
                   called, branch, msgs, offered>>

\* Lines 100-106: the `if audio_path:` gate and the output paths.
AudioGate ==
    /\ pc = "gate"
    /\ IF audio_path # "None"
       THEN /\ msgs' = msgs \cup {"audio_ready"}
            /\ midi_out' = "path"
            /\ musicxml_path' = "path"
            /\ pc' = "transcribe"
       ELSE /\ UNCHANGED <<msgs, midi_out, musicxml_path>>
            /\ pc' = "done"
    /\ UNCHANGED <<importVars, input_type, audio_path, ext, files, codec, called,
                   branch, offered>>

\* ---------------------------------------------------------------- transcription

PasBranches == {"pas_old", "pas_new", "pas_fallback"}

\* MUTANT of Dispatch: the in-memory predict call is probed first.
Dispatch_PredictFirst(ie, pred, pas, ps) ==
    IF ie # "None" /\ ~(pred \/ pas) THEN "import_failed"
    ELSE IF pred THEN "predict"
    ELSE IF pas THEN
        IF {"save_midi", "save_notes", "model_or_model_path"} \subseteq ps THEN "pas_old"
        ELSE IF {"save_model_outputs", "save_notes", "model_or_model_path"} \subseteq ps
             THEN "pas_new"
        ELSE "pas_fallback"
    ELSE "no_backend"

\* Lines 109, 118, 123, 127, 131, 136, 153: the branch the transcription block
\* takes, from the import results and predict_and_save's parameter names
\* (inspect.signature of a Python function does not raise).
Dispatch(ie, pred, pas, ps) ==
    IF ie # "None" /\ ~(pred \/ pas) THEN "import_failed"
    ELSE IF pas THEN
        IF {"save_midi", "save_notes", "model_or_model_path"} \subseteq ps THEN "pas_old"
        ELSE IF {"save_model_outputs", "save_notes", "model_or_model_path"} \subseteq ps
             THEN "pas_new"
        ELSE "pas_fallback"
    ELSE IF pred THEN "predict"
    ELSE "no_backend"

\* What a predict_and_save call can do: write either file, wholly or in part,
\* and return or raise.
PasOutcomes == [raises : BOOLEAN, midi : FileStates, notes : FileStates]

\* What the predict branch can meet: the call returns or raises, the result's
\* shape, whether midi_data has a write method, and how each write ends.
ResultShapes == {"tuple3", "tuple4", "list3", "tuple2", "scalar"}

WriteOutcomes == {"ok", "raises", "raises_partial"}

PredictOutcomes ==
    [raises : BOOLEAN, shape : ResultShapes, has_write : BOOLEAN,
     midi_write : WriteOutcomes, notes_write : WriteOutcomes]

\* Lines 139-143: the result is unpacked without raising.
Unpacks(shape) == shape \in {"tuple3", "tuple4", "list3"}

\* The state a file is left in by a write that ends as w.
Written(w) ==
    CASE w = "ok" -> "complete"
      [] w = "raises_partial" -> "partial"
      [] OTHER -> "absent"

\* Lines 138-151: the predict branch up to the first statement that raises.
PredictEffect(o) ==
    IF o.raises \/ ~Unpacks(o.shape)
    THEN [raises |-> TRUE, midi |-> "absent", notes |-> "absent"]
    ELSE IF o.midi_write # "ok"
    THEN [raises |-> TRUE, midi |-> Written(o.midi_write), notes |-> "absent"]
    ELSE [raises |-> o.notes_write # "ok", midi |-> "complete",
          notes |-> Written(o.notes_write)]

\* MUTANT of BackendCalls: predict is tried after predict_and_save raised.
BackendCalls_Retry(br, ap, raised, pred) ==
    IF br \in PasBranches
    THEN IF raised /\ pred
         THEN <<[fn |-> "predict_and_save", args |-> PasArgs(ap)],
                [fn |-> "predict", args |-> PredictArgs(ap)]>>
         ELSE <<[fn |-> "predict_and_save", args |-> PasArgs(ap)]>>
    ELSE IF br = "predict" THEN <<[fn |-> "predict", args |-> PredictArgs(ap)]>>
    ELSE <<>>

\* Lines 116-161: the backend calls one pass of the block makes in branch br;
\* raised says whether the call raised, pred whether predict is bound.
BackendCalls(br, ap, raised, pred) ==
    IF br \in PasBranches THEN <<[fn |-> "predict_and_save", args |-> PasArgs(ap)]>>
    ELSE IF br = "predict" THEN <<[fn |-> "predict", args |-> PredictArgs(ap)]>>
    ELSE <<>>

\* Lines 126, 130, 134, 152: the success message of a branch.
SuccessMsg(br) ==
    CASE br = "pas_old" -> "midi_via_pas_old"
      [] br = "pas_new" -> "midi_via_pas_new"
      [] br = "pas_fallback" -> "midi_via_pas_fallback"
      [] br = "predict" -> "midi_via_predict"

SuccessMsgs == {"midi_via_pas_old", "midi_via_pas_new", "midi_via_pas_fallback",
                "midi_via_predict"}

\* Lines 116-161: the try block and its handler, given what the backend did.
TranscribeWith(br, eff) ==
    /\ called' = called \o BackendCalls(br, audio_path, eff.raises, PREDICT_FN)
    /\ files' = [files EXCEPT !["midi"] = eff.midi, !["notes"] = eff.notes]
    /\ msgs' = msgs \cup (IF eff.raises THEN {"tx_error"} ELSE {SuccessMsg(br)})
    /\ midi_out' = IF eff.raises THEN "None" ELSE midi_out

\* Lines 108-161: the import-failure gate and the transcription block.
Transcribe ==
    /\ pc = "transcribe"
    /\ LET br == Dispatch(IMPORT_ERROR, PREDICT_FN, PREDICT_AND_SAVE_FN, params) IN
         /\ branch' = br
         /\ pc' = IF br = "import_failed" THEN "downloads" ELSE "export"
         /\ CASE br = "import_failed" ->
                   /\ msgs' = msgs \cup {"import_failed"}
                   /\ UNCHANGED <<called, files, midi_out>>
              [] br \in PasBranches ->
                   \E o \in PasOutcomes : TranscribeWith(br, o)
              [] br = "predict" ->
                   \E o \in PredictOutcomes : TranscribeWith(br, PredictEffect(o))
              [] OTHER ->
                   /\ msgs' = msgs \cup {"tx_error", "no_usable_function"}
                   /\ midi_out' = "None"
                   /\ UNCHANGED <<called, files>>
    /\ UNCHANGED <<importVars, input_type, audio_path, ext, musicxml_path, codec, offered>>

\* ---------------------------------------------------------------- notation export

\* Lines 163-171: converter.parse and score.write, with the handler.
ExportMusicXML ==
    /\ pc = "export"
    /\ IF midi_out # "None" /\ Exists(files, "midi")
       THEN \E w \in WriteOutcomes :
              /\ files' = [files EXCEPT !["musicxml"] = Written(w)]
              /\ msgs' = msgs \cup (IF w = "ok" THEN {"xml_ok"} ELSE {"xml_error"})
              /\ musicxml_path' = IF w = "ok" THEN musicxml_path ELSE "None"
       ELSE UNCHANGED <<files, msgs, musicxml_path>>
    /\ pc' = "downloads"
    /\ UNCHANGED <<importVars, input_type, audio_path, ext, midi_out, codec, called,
                   branch, offered>>

\* ---------------------------------------------------------------- downloads

\* MUTANT of OfferedKinds: MIDI and note events are withheld with the MusicXML.
OfferedKinds_Rollback(ap, mo, xp, fs) ==
    {k \in {"audio", "midi", "musicxml", "notes"} :
        CASE k = "audio" -> Exists(fs, ap)
          [] k = "midi" -> mo # "None" /\ xp # "None" /\ Exists(fs, "midi")
          [] k = "musicxml" -> xp # "None" /\ Exists(fs, "musicxml")
          [] k = "notes" -> xp # "None" /\ Exists(fs, "notes")}

\* Lines 176, 184, 192, 200: the guards of the four download buttons.
OfferedKinds(ap, mo, xp, fs) ==
    {k \in {"audio", "midi", "musicxml", "notes"} :
        CASE k = "audio" -> Exists(fs, ap)
          [] k = "midi" -> mo # "None" /\ Exists(fs, "midi")
          [] k = "musicxml" -> xp # "None" /\ Exists(fs, "musicxml")
          [] k = "notes" -> Exists(fs, "notes")}

\* Lines 178-206: what a button serves: its mime tag, the file's state and,
\* for the audio, the encoding of the bytes and the file name's suffix.
Button(k) ==
    CASE k = "audio" -> [mime |-> "audio/wav", content |-> files[audio_path],
                         codec |-> codec[audio_path], suffix |-> ext]
      [] k = "midi" -> [mime |-> "audio/midi", content |-> files["midi"],
                        codec |-> "midi", suffix |-> ".midi"]
      [] k = "musicxml" -> [mime |-> "application/xml", content |-> files["musicxml"],
                            codec |-> "musicxml", suffix |-> ".musicxml"]
      [] k = "notes" -> [mime |-> "application/json", content |-> files["notes"],
                         codec |-> "json", suffix |-> ".json"]

\* Lines 173-207: the Downloads section.
Downloads ==
    /\ pc = "downloads"
    /\ offered' = [k \in OfferedKinds(audio_path, midi_out, musicxml_path, files)
                     |-> Button(k)]
    /\ pc' = "done"
    /\ UNCHANGED <<importVars, input_type, audio_path, ext, midi_out, musicxml_path,
                   files, codec, called, branch, msgs>>

\* Streamlit runs the script again from the top on the next interaction; the
\* next request gets a fresh uuid4, so none of this request's files is its.
Rerun ==
    /\ pc = "done"
    /\ pc' = "import"
    /\ PREDICT_FN' = FALSE
    /\ PREDICT_AND_SAVE_FN' = FALSE
    /\ IMPORT_ERROR' = "None"
    /\ params' = {}
    /\ input_type' = "none"
    /\ audio_path' = "None"
    /\ ext' = "none"
    /\ midi_out' = "None"
    /\ musicxml_path' = "None"
    /\ files' = NoFiles
    /\ codec' = NoCodec
    /\ called' = <<>>
    /\ branch' = "none"
    /\ msgs' = {}
    /\ offered' = <<>>

Next ==
    \/ ImportBoth
    \/ ImportPredictAndSave
    \/ ImportPredict
    \/ UploadFile
    \/ YouTubeIdle
    \/ YouTubeDownload
    \/ TrimExport
    \/ UnlinkRaw
    \/ AudioGate
    \/ Transcribe
    \/ ExportMusicXML
    \/ Downloads
    \/ Rerun

Spec == Init /\ [][Next]_vars

\* ---------------------------------------------------------------- properties

Importing == pc \in {"import", "import_pas", "import_predict"}

\* The transcription block has run in this request.
StageRan == branch \notin {"none", "import_failed"}

\* The stage ended in its handler (line 156).
StageFailed == "tx_error" \in msgs

Kinds == DOMAIN offered

\* predict_and_save's parameter names match one of the two known conventions.
KnownConvention(ps) ==
    \/ {"save_midi", "save_notes", "model_or_model_path"} \subseteq ps
    \/ {"save_model_outputs", "save_notes", "model_or_model_path"} \subseteq ps

\* C1: at the end of the transcription stage either both the MIDI
\* file and the note-events file of the request exist, or neither does.
C1_TotalOrNothing ==
    StageRan => (Exists(files, "midi") <=> Exists(files, "notes"))

\* C2: when the transcription stage failed, the Downloads section
\* offers neither the MIDI nor the note events.
C2_FailedStageOffersNeither ==
    (pc = "done" /\ StageFailed) => ("midi" \notin Kinds /\ "notes" \notin Kinds)

\* C3 (as claimed): when both entry points were imported the request is
\* transcribed through predict; predict_and_save is called only when predict
\* is unavailable.
C3_PredictPreferred ==
    StageRan =>
        \A i \in 1..Len(called) : called[i].fn = "predict_and_save" => ~PREDICT_FN

\* C3 (amended): the preference order is fixed with predict_and_save first:
\* whenever predict_and_save was imported the request is transcribed through
\* it, and predict is called only when predict_and_save is unavailable.
C3_PredictAndSavePreferred ==
    StageRan =>
        /\ PREDICT_AND_SAVE_FN =>
             called = <<[fn |-> "predict_and_save", args |-> PasArgs(audio_path)]>>
        /\ \A i \in 1..Len(called) : called[i].fn = "predict" => ~PREDICT_AND_SAVE_FN

C3_Witness ==
    /\ StageRan /\ PREDICT_FN /\ PREDICT_AND_SAVE_FN
    /\ Len(called) = 1 /\ called[1].fn = "predict_and_save"

\* C4: with parameter names matching no known convention the stage fails
\* fast with an unsupported-backend error and the backend is not invoked with
\* guessed arguments.
C4_FailFast ==
    (StageRan /\ PREDICT_AND_SAVE_FN /\ ~KnownConvention(params)) =>
        (called = <<>> /\ StageFailed)

\* C5: when predict_and_save returned without raising and no MIDI
\* file is at the expected path, no success is reported and neither the MIDI
\* nor the note events are offered.
C5_MissingMidiIsFailure ==
    (pc = "done" /\ branch \in PasBranches /\ ~StageFailed /\ ~Exists(files, "midi")) =>
        /\ msgs \cap SuccessMsgs = {}
        /\ "midi" \notin Kinds /\ "notes" \notin Kinds

\* The stage reported success and left both files whole.
TranscriptionSucceeded ==
    /\ msgs \cap SuccessMsgs # {}
    /\ files["midi"] = "complete" /\ files["notes"] = "complete"

C6_Delivery ==
    pc = "done" =>
        /\ "xml_error" \in msgs =>
             /\ "midi" \in Kinds /\ "musicxml" \notin Kinds
             /\ "notes" \in Kinds <=> Exists(files, "notes")
        /\ ("xml_error" \in msgs /\ TranscriptionSucceeded) =>
             /\ Kinds = {"audio", "midi", "notes"}
             /\ offered["midi"].content = "complete"
             /\ offered["notes"].content = "complete"
        /\ (StageFailed \/ branch = "import_failed") => "audio" \in Kinds

C6_Frame ==
    pc \in {"export", "downloads"} =>
        (files'["midi"] = files["midi"] /\ files'["notes"] = files["notes"])

\* C6: a failed stage withholds only what depends on it: after a failed
\* MusicXML export the MIDI and note events of a successful transcription
\* are offered, whole, and only the MusicXML is withheld; neither the export
\* nor the Downloads section changes the MIDI or note-events file; after a
\* failed transcription the audio is still offered.
C6_OnlyDependentsWithheld == []C6_Delivery /\ [][C6_Frame]_vars

C6_Witness ==
    /\ pc = "done" /\ "xml_error" \in msgs /\ TranscriptionSucceeded
    /\ Kinds = {"audio", "midi", "notes"}

\* C7: when a step of the URL acquisition failed, audio_path is unset and
\* nothing follows: no backend call, no export, no file of the later stages,
\* no download.
C7_FailedAcquisitionStops ==
    "download_error" \in msgs =>
        /\ audio_path = "None"
        /\ pc \in {"gate", "done"}
        /\ called = <<>> /\ branch = "none"
        /\ msgs \cap {"audio_ready", "xml_ok", "xml_error"} = {}
        /\ ~Exists(files, "midi") /\ ~Exists(files, "notes") /\ ~Exists(files, "musicxml")
        /\ offered = <<>>

C7_Witness ==
    /\ pc = "done" /\ "download_error" \in msgs
    /\ files["raw"] = "complete" /\ files["trimmed"] = "partial"

\* C8: the audio handed to the backend and the audio offered for
\* download are WAV, whatever the source.
C8_AudioIsWav ==
    /\ \A i \in 1..Len(called) : codec[called[i].args[1]] = "wav"
    /\ "audio" \in Kinds => offered["audio"].codec = "wav"

\* C9: within one request the backend is invoked at most once; after a call
\* raised nothing else is tried.
C9_NoRetry == Len(called) <= 1

C9_Witness ==
    /\ pc = "done" /\ StageFailed /\ branch \in PasBranches
    /\ PREDICT_FN /\ Len(called) = 1

\* C10: after the import block, PREDICT_FN and PREDICT_AND_SAVE_FN both unset
\* implies IMPORT_ERROR set; a request without a backend takes the
\* import-failure branch and the RuntimeError branch is never taken.
C10_NoBackendMeansImportError ==
    ~Importing =>
        /\ (~PREDICT_FN /\ ~PREDICT_AND_SAVE_FN) => IMPORT_ERROR # "None"
        /\ (branch # "none" /\ ~PREDICT_FN /\ ~PREDICT_AND_SAVE_FN) =>
             branch = "import_failed"
        /\ branch # "no_backend"
        /\ "no_usable_function" \notin msgs

C10_Witness ==
    /\ branch = "import_failed" /\ IMPORT_ERROR = "ImportError"
    /\ ~PREDICT_FN /\ ~PREDICT_AND_SAVE_FN /\ pc = "done"

====
